---- MODULE Spec2Model ----
(***************************************************************************)
(* Spatter execution contexts (src/src/Spatter/Configuration.hh):          *)
(* ConfigurationBase and its Serial, OpenMP and CUDA specialisations.      *)
(* One configuration object is modelled from the end of the base-class     *)
(* constructor onwards: setup(), run(timed) with its gather/scatter        *)
(* kernels, the parallel loops of the OpenMP variant step by step,         *)
(* report(), the destructor of the CUDA variant, and the processes of a    *)
(* build with USE_MPI around the barrier of each kernel call.              *)
(*                                                                         *)
(* Indices are 0-based in the code and 1-based in the sequences here:      *)
(* the code's sparse[p] is sparse[p + 1].  size_t is WordBits wide.        *)
(* Times are whole clock ticks.                                            *)
(***************************************************************************)
EXTENDS Integers, Sequences, FiniteSets, TLC

\* ------------------------------------------------------------- bounds
WordBits == 3
MaxIdx == 1
MaxLen == 2
RandMod == 5
MaxSeed == 1
MaxDur == 2
MaxTime == 4
NumProcs == 2
MaxCalls == 2

Modulus == 2 ^ WordBits
SizeMax == Modulus - 1
Words == 0 .. SizeMax
Values == 0 .. (RandMod - 1)
Durations == 1 .. MaxDur

Backends == {"Serial", "OpenMP", "CUDA"}

\* The kernel names handed to the constructor, one character per element.
KernelArgs ==
  { <<"g", "a", "t", "h", "e", "r">>,
    <<"G", "A", "T", "H", "E", "R">>,
    <<"s", "c", "a", "t", "t", "e", "r">>,
    <<"S", "c", "a", "t", "t", "e", "r">>,
    <<"s", "o", "r", "t">> }

GatherName == <<"g", "a", "t", "h", "e", "r">>
ScatterName == <<"s", "c", "a", "t", "t", "e", "r">>

RECURSIVE SeqsUpTo(_, _)
SeqsUpTo(S, n) ==
  IF n = 0 THEN {<<>>}
  ELSE LET shorter == SeqsUpTo(S, n - 1)
       IN  shorter \cup {Append(q, x) : q \in {r \in shorter : Len(r) = n - 1}, x \in S}

\* Pattern values: the small indices and the largest value a size_t holds.
PatternVals == (0 .. MaxIdx) \cup {SizeMax}
Patterns == SeqsUpTo(PatternVals, MaxLen)

\* ------------------------------------------------------------- helpers
\* std::tolower on one character.
ToLowerChar(c) ==
  CASE c = "G" -> "g"
    [] c = "A" -> "a"
    [] c = "T" -> "t"
    [] c = "H" -> "h"
    [] c = "E" -> "e"
    [] c = "R" -> "r"
    [] c = "S" -> "s"
    [] c = "C" -> "c"
    [] c = "O" -> "o"
    [] OTHER -> c

\* Mutant of ToLower: the name is kept as given.
ToLowerSkipped(k) == k

\* std::transform(kernel.begin(), kernel.end(), kernel.begin(), tolower)
ToLower(k) == [i \in 1 .. Len(k) |-> ToLowerChar(k[i])]

\* rand(): the generator's next state, which is also the value returned.
NextRand(x) == (x + 1) % RandMod

\* The values of n successive rand() calls from state x.
RECURSIVE RandDraws(_, _)
RandDraws(x, n) ==
  IF n = 0 THEN <<>> ELSE <<NextRand(x)>> \o RandDraws(NextRand(x), n - 1)

RECURSIVE RandAfter(_, _)
RandAfter(x, n) == IF n = 0 THEN x ELSE RandAfter(NextRand(x), n - 1)

\* The loop of setup() that finds the largest pattern value.
RECURSIVE MaxPatternVal(_, _, _)
MaxPatternVal(p, i, m) ==
  IF i > Len(p) THEN m
  ELSE MaxPatternVal(p, i + 1, IF p[i] > m THEN p[i] ELSE m)

\* max_pattern_val + 1 in size_t arithmetic: the argument of sparse.resize.
SparseSize(p) == (MaxPatternVal(p, 1, 0) + 1) % Modulus

\* pattern[i] used as an index into a buffer of length n.
InBounds(idx, n) == idx < n

\* Every access of a gather/scatter loop over p stays inside s.
AllInBounds(p, s) == \A i \in 1 .. Len(p) : InBounds(p[i], Len(s))

\* ------------------------------------------------------------- state
VARIABLES
  backend,       \* which Configuration<Backend> specialisation this object is
  kernelArg,     \* the kernel name as handed to the constructor
  kernel,        \* ConfigurationBase::kernel
  pattern,       \* ConfigurationBase::pattern
  nruns,         \* ConfigurationBase::nruns
  rand_state,    \* the state of the C library generator behind rand()
  sparse,        \* ConfigurationBase::sparse
  dense,         \* ConfigurationBase::dense
  time_seconds,  \* ConfigurationBase::time_seconds
  last_dur,      \* what the timer or the events measured in the last timed call
  dev_pattern,   \* contents of the device buffers of the CUDA variant
  dev_sparse,
  dev_dense,
  dev_alloc,     \* device buffers and events acquired by setup()
  dev_released,  \* how often each handle went to cudaFree/cudaEventDestroy
  ev_elapsed,    \* time between the last recorded start and stop events
  dev_fault,     \* the device has hit an illegal address (sticky error)
  pc,            \* "constructed", "ready", "running", "exited", "crashed",
                 \* "undefined", "degraded", "destroyed"
  ret,           \* <<v>>: the last run() returned v; <<>> before any return
  exit_code,     \* <<v>>: exit(v) was called; <<>> while the process lives
  allocs,        \* number of host buffer allocations made so far
  call,          \* the last run() call: arguments, kernels entered, prior state
  omp,           \* the parallel loop of the OpenMP variant
  report_out,    \* <<figures>> printed by the last report(), <<>> before any
  mpi            \* the cooperating processes of a build with USE_MPI

hostVars == <<sparse, dense, time_seconds, last_dur>>
cudaVars == <<dev_pattern, dev_sparse, dev_dense, dev_alloc, dev_released,
              ev_elapsed, dev_fault>>
ctorVars == <<backend, kernelArg, kernel, pattern, nruns>>
vars == <<backend, kernelArg, kernel, pattern, nruns, rand_state, sparse, dense,
          time_seconds, last_dur, dev_pattern, dev_sparse, dev_dense, dev_alloc,
          dev_released, ev_elapsed, dev_fault, pc, ret, exit_code, allocs, call,
          omp, report_out, mpi>>

NRunsArgs == {10}

\* The processes of MPI_COMM_WORLD.  For each: calls, the number of
\* gather/scatter invocations begun; pos, the next step of the invocation in
\* progress (0 outside one); timed, its argument; arrived, the number of
\* MPI_Barrier calls entered; waiting, inside MPI_Barrier; live, FALSE once
\* the process has errored out.
Procs == 1 .. NumProcs
MpiIdle == [calls |-> [p \in Procs |-> 0], pos |-> [p \in Procs |-> 0],
            timed |-> [p \in Procs |-> FALSE], arrived |-> [p \in Procs |-> 0],
            waiting |-> [p \in Procs |-> FALSE], live |-> [p \in Procs |-> TRUE]]

\* What Configuration<CUDA>::setup acquires after the base setup: the two
\* events and the three device buffers.
CudaResources == {"start", "stop", "dev_pattern", "dev_sparse", "dev_dense"}

\* cudaEventCreate and cudaMalloc each succeed or fail; setup() does not look
\* at what they return, so any subset may be what was acquired.
AcquireOutcomes == SUBSET CudaResources

NoCall == [op |-> "none", timed |-> FALSE, ran |-> <<>>, pre_sparse |-> <<>>,
           pre_dense |-> <<>>, pre_time |-> 0, prev_ran |-> <<>>,
           prev_pre_sparse |-> <<>>, host_sparse |-> <<>>, host_dense |-> <<>>,
           dev_ops |-> {}]
NoLoop == [kernel |-> "none", timed |-> FALSE, stage |-> <<>>, tmp |-> <<>>,
           acc |-> {}, ub |-> FALSE]

\* ConfigurationBase::ConfigurationBase: the members after the initialiser
\* list and the std::transform to lower case; the derived constructor's call
\* of setup() is the next step.
Init ==
  /\ backend \in Backends
  /\ kernelArg \in KernelArgs
  /\ kernel = ToLower(kernelArg)
  /\ pattern \in Patterns
  /\ nruns \in NRunsArgs
  /\ rand_state \in 0 .. MaxSeed
  /\ sparse = <<>>
  /\ dense = <<>>
  /\ time_seconds = 0
  /\ last_dur = 0
  /\ dev_pattern = <<>>
  /\ dev_sparse = <<>>
  /\ dev_dense = <<>>
  /\ dev_alloc = {}
  /\ dev_released = [r \in CudaResources |-> 0]
  /\ ev_elapsed = 0
  /\ dev_fault = FALSE
  /\ pc = "constructed"
  /\ ret = <<>>
  /\ exit_code = <<>>
  /\ allocs = 0
  /\ call = NoCall
  /\ omp = NoLoop
  /\ report_out = <<>>
  /\ mpi = MpiIdle

\* ------------------------------------------------------------- setup
\* Mutant of PatternRejected: the length check is missing.
PatternNeverRejected(p) == FALSE

\* The guard at the top of ConfigurationBase::setup.
PatternRejected(p) == Len(p) = 0

\* dense.resize(pattern.size()) and the loop filling it from rand().
SetupDense(p, x) == RandDraws(x, Len(p))

\* sparse.resize(max_pattern_val + 1) and the loop filling it from rand().
SetupSparse(p, x) == RandDraws(RandAfter(x, Len(p)), SparseSize(p))

\* Host allocations made by the two resize calls (a resize to 0 makes none).
SetupAllocs(p) ==
  (IF Len(p) > 0 THEN 1 ELSE 0) + (IF SparseSize(p) > 0 THEN 1 ELSE 0)

\* cudaMemcpy(dev, host.data(), ..., cudaMemcpyHostToDevice): the device
\* buffer holds the host contents if it was allocated; a copy to a pointer
\* cudaMalloc never set fails.
Uploaded(got, r, host) == IF r \in got THEN host ELSE <<>>

\* Configuration<Backend>::setup, called from the derived constructor.  A
\* Configuration<CUDA> whose setup did not acquire everything is "degraded":
\* of such an object only the destruction is followed.
Setup ==
  /\ pc = "constructed"
  /\ IF PatternRejected(pattern)
       THEN /\ pc' = "exited"
            /\ exit_code' = <<1>>
            /\ UNCHANGED <<rand_state, hostVars, cudaVars, allocs>>
       ELSE /\ dense' = SetupDense(pattern, rand_state)
            /\ sparse' = SetupSparse(pattern, rand_state)
            /\ rand_state' = RandAfter(rand_state, Len(pattern) + SparseSize(pattern))
            /\ allocs' = allocs + SetupAllocs(pattern)
            /\ IF backend = "CUDA"
                 THEN \E got \in AcquireOutcomes :
                        /\ dev_alloc' = got
                        /\ dev_pattern' = Uploaded(got, "dev_pattern", pattern)
                        /\ dev_sparse' = Uploaded(got, "dev_sparse", sparse')
                        /\ dev_dense' = Uploaded(got, "dev_dense", dense')
                        /\ pc' = IF got = CudaResources THEN "ready" ELSE "degraded"
                 ELSE /\ pc' = "ready"
                      /\ UNCHANGED <<dev_pattern, dev_sparse, dev_dense, dev_alloc>>
            /\ UNCHANGED <<time_seconds, last_dur, dev_released, ev_elapsed,
                           dev_fault, exit_code>>
  /\ UNCHANGED <<ctorVars, mpi, ret, call, omp, report_out>>

\* ------------------------------------------------------------- kernels
\* A value for each position whose read falls outside the buffer.
Garbage(p) == [1 .. Len(p) -> Values]

\* Mutant of GatherLoop: dense[i] = sparse[i], the pattern ignored.
RECURSIVE GatherLoopNoIndirection(_, _, _, _, _)
GatherLoopNoIndirection(d, s, p, g, i) ==
  IF i > Len(p) THEN d
  ELSE GatherLoopNoIndirection(
         [d EXCEPT ![i] = IF i <= Len(s) THEN s[i] ELSE d[i]], s, p, g, i + 1)

\* Mutant of GatherLoop: dense[i] += sparse[pattern[i]].
RECURSIVE GatherLoopAccumulate(_, _, _, _, _)
GatherLoopAccumulate(d, s, p, g, i) ==
  IF i > Len(p) THEN d
  ELSE GatherLoopAccumulate(
         [d EXCEPT ![i] = IF InBounds(p[i], Len(s))
                            THEN (d[i] + s[p[i] + 1]) % RandMod ELSE g[i]],
         s, p, g, i + 1)

\* for (i = 0; i < pattern.size(); ++i) dense[i] = sparse[pattern[i]];
\* g supplies what an out-of-bounds read returns.
RECURSIVE GatherLoop(_, _, _, _, _)
GatherLoop(d, s, p, g, i) ==
  IF i > Len(p) THEN d
  ELSE GatherLoop(
         [d EXCEPT ![i] = IF InBounds(p[i], Len(s)) THEN s[p[i] + 1] ELSE g[i]],
         s, p, g, i + 1)

\* Mutant of ScatterLoop: sparse[i] = dense[i], the pattern ignored.
RECURSIVE ScatterLoopNoIndirection(_, _, _, _)
ScatterLoopNoIndirection(s, d, p, i) ==
  IF i > Len(p) THEN s
  ELSE ScatterLoopNoIndirection(
         IF i <= Len(s) THEN [s EXCEPT ![i] = d[i]] ELSE s, d, p, i + 1)

\* Mutant of ScatterLoop: the loop runs from the last position to the first.
RECURSIVE ScatterDown(_, _, _, _)
ScatterDown(s, d, p, i) ==
  IF i < 1 THEN s
  ELSE ScatterDown(
         IF InBounds(p[i], Len(s)) THEN [s EXCEPT ![p[i] + 1] = d[i]] ELSE s,
         d, p, i - 1)

ScatterLoopReversed(s, d, p, i) == ScatterDown(s, d, p, Len(p))

\* for (i = 0; i < pattern.size(); ++i) sparse[pattern[i]] = dense[i];
\* an out-of-bounds write that does not fault lands outside both buffers.
RECURSIVE ScatterLoop(_, _, _, _)
ScatterLoop(s, d, p, i) ==
  IF i > Len(p) THEN s
  ELSE ScatterLoop(
         IF InBounds(p[i], Len(s)) THEN [s EXCEPT ![p[i] + 1] = d[i]] ELSE s,
         d, p, i + 1)

\* if (timed) { timer.stop(); time_seconds = timer.seconds(); }
HostElapsed(timed, old, d) == IF timed THEN d ELSE old

\* The dispatch of ConfigurationBase::run.
Dispatch(k) ==
  IF k = GatherName THEN "gather"
  ELSE IF k = ScatterName THEN "scatter"
  ELSE "invalid"

\* The kernels ConfigurationBase::run enters.
Entered(k) == IF Dispatch(k) = "invalid" THEN <<>> ELSE <<Dispatch(k)>>

\* The value ConfigurationBase::run returns.
BaseRunStatus(k) == IF Dispatch(k) = "invalid" THEN <<-1>> ELSE <<0>>

\* The buffers the kernels of this backend work on.
KernelSparse == IF backend = "CUDA" THEN dev_sparse ELSE sparse
KernelDense == IF backend = "CUDA" THEN dev_dense ELSE dense

\* The host-device operations of one call on a Configuration<CUDA>, other
\* than the kernel launch: run() copies both buffers back and synchronises
\* the device; gather() and scatter() synchronise the device on entry and
\* wait for the stop event (timed) or for the device (untimed) after the
\* launch.
CudaOps(op, timed, ran) ==
  (IF op = "run" THEN {"memcpy_d2h_sparse", "memcpy_d2h_dense", "device_sync"}
                 ELSE {})
  \cup (IF ran = <<>> THEN {}
        ELSE {"device_sync"} \cup (IF timed THEN {"event_sync"} ELSE {}))

\* The record of a call: op is "run" for run(timed) and "direct" for a call
\* of the public gather(timed) or scatter(timed).
NewCall(op, timed, ran) ==
  [op |-> op, timed |-> timed, ran |-> ran,
   pre_sparse |-> KernelSparse, pre_dense |-> KernelDense,
   pre_time |-> time_seconds,
   prev_ran |-> call.ran, prev_pre_sparse |-> call.pre_sparse,
   host_sparse |-> sparse, host_dense |-> dense,
   dev_ops |-> IF backend = "CUDA" THEN CudaOps(op, timed, ran) ELSE {}]

\* An access outside a host buffer is undefined behaviour.  The process
\* either faults (pc "crashed") or carries on with whatever the access found
\* (pc "undefined"); nothing is modelled after either.
Crash ==
  /\ pc' = "crashed"
  /\ UNCHANGED <<hostVars, ret>>

\* Configuration<Serial>::gather; r is what the caller then returns.
SerialGather(timed, r) ==
  IF AllInBounds(pattern, sparse)
    THEN \E d \in Durations :
           /\ dense' = GatherLoop(dense, sparse, pattern, <<>>, 1)
           /\ time_seconds' = HostElapsed(timed, time_seconds, d)
           /\ last_dur' = IF timed THEN d ELSE last_dur
           /\ ret' = r
           /\ UNCHANGED <<sparse, pc>>
    ELSE \/ Crash
         \/ \E g \in Garbage(pattern), d \in Durations :
              /\ dense' = GatherLoop(dense, sparse, pattern, g, 1)
              /\ time_seconds' = HostElapsed(timed, time_seconds, d)
              /\ last_dur' = IF timed THEN d ELSE last_dur
              /\ ret' = r
              /\ pc' = "undefined"
              /\ UNCHANGED sparse

\* Configuration<Serial>::scatter; r is what the caller then returns.
SerialScatter(timed, r) ==
  IF AllInBounds(pattern, sparse)
    THEN \E d \in Durations :
           /\ sparse' = ScatterLoop(sparse, dense, pattern, 1)
           /\ time_seconds' = HostElapsed(timed, time_seconds, d)
           /\ last_dur' = IF timed THEN d ELSE last_dur
           /\ ret' = r
           /\ UNCHANGED <<dense, pc>>
    ELSE \/ Crash
         \/ \E d \in Durations :
              /\ sparse' = ScatterLoop(sparse, dense, pattern, 1)
              /\ time_seconds' = HostElapsed(timed, time_seconds, d)
              /\ last_dur' = IF timed THEN d ELSE last_dur
              /\ ret' = r
              /\ pc' = "undefined"
              /\ UNCHANGED dense

\* ConfigurationBase::run on a Configuration<Serial>
RunSerial ==
  /\ pc = "ready"
  /\ backend = "Serial"
  /\ \E timed \in BOOLEAN :
       /\ call' = NewCall("run", timed, Entered(kernel))
       /\ CASE Dispatch(kernel) = "gather" ->
                 SerialGather(timed, BaseRunStatus(kernel))
            [] Dispatch(kernel) = "scatter" ->
                 SerialScatter(timed, BaseRunStatus(kernel))
            [] OTHER -> /\ ret' = BaseRunStatus(kernel)
                        /\ UNCHANGED <<hostVars, pc>>
  /\ UNCHANGED <<ctorVars, mpi, rand_state, cudaVars, exit_code, allocs, omp, report_out>>

\* A caller invoking the public gather(timed) or scatter(timed) of a
\* Configuration<Serial> itself.
DirectSerial ==
  /\ pc = "ready"
  /\ backend = "Serial"
  /\ \E timed \in BOOLEAN, k \in {"gather", "scatter"} :
       /\ call' = NewCall("direct", timed, <<k>>)
       /\ IF k = "gather" THEN SerialGather(timed, ret)
                          ELSE SerialScatter(timed, ret)
  /\ UNCHANGED <<ctorVars, mpi, rand_state, cudaVars, exit_code, allocs, omp, report_out>>

\* ------------------------------------------------------------- OpenMP
\* "#pragma omp parallel for simd": the iterations are unordered.  Each
\* iteration is a load followed by a store, and any two iterations may be
\* run by different threads or lanes, so their steps interleave freely.
\* omp.acc logs every buffer access as [it, buf, idx, kind].
Access(i, buf, idx, kind) == [it |-> i, buf |-> buf, idx |-> idx, kind |-> kind]

\* Mutant of OmpGatherTarget: every iteration assigns dense[0].
OmpGatherTargetFirst(i) == 1

\* The dense slot iteration i of the gather loop assigns: dense[i].
OmpGatherTarget(i) == i

\* Mutant of OmpScatterSource: every iteration reads dense[0].
OmpScatterSourceFirst(i) == 1

\* The dense slot iteration i of the scatter loop reads: dense[i].
OmpScatterSource(i) == i

\* Entry of Configuration<OpenMP>::gather or scatter up to the fork.
OmpFork(k, timed) ==
  [kernel |-> k, timed |-> timed,
   stage |-> [i \in 1 .. Len(pattern) |-> "todo"],
   tmp |-> [i \in 1 .. Len(pattern) |-> 0],
   acc |-> {}, ub |-> FALSE]

\* ConfigurationBase::run on a Configuration<OpenMP>, up to the fork of the
\* parallel loop of gather or scatter.
RunOmp ==
  /\ pc = "ready"
  /\ backend = "OpenMP"
  /\ \E timed \in BOOLEAN :
       /\ call' = NewCall("run", timed, Entered(kernel))
       /\ IF Dispatch(kernel) = "invalid"
            THEN /\ ret' = BaseRunStatus(kernel)
                 /\ UNCHANGED <<pc, omp>>
            ELSE /\ ret' = <<>>
                 /\ pc' = "running"
                 /\ omp' = OmpFork(Dispatch(kernel), timed)
  /\ UNCHANGED <<ctorVars, mpi, rand_state, hostVars, cudaVars, exit_code, allocs, report_out>>

\* A caller invoking gather(timed) or scatter(timed) of a
\* Configuration<OpenMP> itself, up to the fork.
DirectOmp ==
  /\ pc = "ready"
  /\ backend = "OpenMP"
  /\ \E timed \in BOOLEAN, k \in {"gather", "scatter"} :
       /\ call' = NewCall("direct", timed, <<k>>)
       /\ omp' = OmpFork(k, timed)
  /\ pc' = "running"
  /\ UNCHANGED <<ctorVars, mpi, rand_state, hostVars, cudaVars, ret, exit_code, allocs, report_out>>

\* The right-hand side of iteration i: sparse[pattern[i]] or dense[i].
OmpLoad(i) ==
  /\ pc = "running"
  /\ i \in 1 .. Len(pattern)
  /\ omp.stage[i] = "todo"
  /\ IF omp.kernel = "gather"
       THEN IF InBounds(pattern[i], Len(sparse))
              THEN /\ omp' = [omp EXCEPT !.stage[i] = "loaded",
                                !.tmp[i] = sparse[pattern[i] + 1],
                                !.acc = @ \cup {Access(i, "sparse", pattern[i], "r")}]
                   /\ UNCHANGED pc
              ELSE \/ /\ pc' = "crashed"
                      /\ UNCHANGED omp
                   \/ \E v \in Values :
                        /\ omp' = [omp EXCEPT !.stage[i] = "loaded", !.tmp[i] = v,
                                     !.ub = TRUE,
                                     !.acc = @ \cup {Access(i, "sparse", pattern[i], "r")}]
                        /\ UNCHANGED pc
       ELSE /\ omp' = [omp EXCEPT !.stage[i] = "loaded",
                         !.tmp[i] = dense[OmpScatterSource(i)],
                         !.acc = @ \cup {Access(i, "dense", OmpScatterSource(i) - 1, "r")}]
            /\ UNCHANGED pc
  /\ UNCHANGED <<ctorVars, mpi, rand_state, hostVars, cudaVars, ret, exit_code, allocs, call, report_out>>

\* The assignment of iteration i: dense[i] = ... or sparse[pattern[i]] = ...
OmpStore(i) ==
  /\ pc = "running"
  /\ i \in 1 .. Len(pattern)
  /\ omp.stage[i] = "loaded"
  /\ IF omp.kernel = "gather"
       THEN /\ dense' = [dense EXCEPT ![OmpGatherTarget(i)] = omp.tmp[i]]
            /\ omp' = [omp EXCEPT !.stage[i] = "done",
                         !.acc = @ \cup {Access(i, "dense", OmpGatherTarget(i) - 1, "w")}]
            /\ UNCHANGED <<sparse, pc>>
       ELSE IF InBounds(pattern[i], Len(sparse))
              THEN /\ sparse' = [sparse EXCEPT ![pattern[i] + 1] = omp.tmp[i]]
                   /\ omp' = [omp EXCEPT !.stage[i] = "done",
                                !.acc = @ \cup {Access(i, "sparse", pattern[i], "w")}]
                   /\ UNCHANGED <<dense, pc>>
              ELSE \/ /\ pc' = "crashed"
                      /\ UNCHANGED <<sparse, dense, omp>>
                   \/ /\ omp' = [omp EXCEPT !.stage[i] = "done", !.ub = TRUE,
                                   !.acc = @ \cup {Access(i, "sparse", pattern[i], "w")}]
                      /\ UNCHANGED <<sparse, dense, pc>>
  /\ UNCHANGED <<ctorVars, mpi, rand_state, time_seconds, last_dur, cudaVars, ret,
                 exit_code, allocs, call, report_out>>

\* The join of the parallel loop, the timer, and the return to the caller.
OmpJoin ==
  /\ pc = "running"
  /\ \A i \in 1 .. Len(pattern) : omp.stage[i] = "done"
  /\ \E d \in Durations :
       /\ time_seconds' = HostElapsed(omp.timed, time_seconds, d)
       /\ last_dur' = IF omp.timed THEN d ELSE last_dur
  /\ ret' = IF call.op = "run" THEN BaseRunStatus(kernel) ELSE ret
  /\ pc' = IF omp.ub THEN "undefined" ELSE "ready"
  /\ UNCHANGED <<ctorVars, mpi, rand_state, sparse, dense, cudaVars, exit_code, allocs, call, omp, report_out>>

\* ------------------------------------------------------------- CUDA
\* static_cast<int>(pattern.size())
IntBits == 4
CastInt(n) ==
  LET m == n % (2 ^ IntBits)
  IN  IF m >= 2 ^ (IntBits - 1) THEN m - 2 ^ IntBits ELSE m

\* cuda_gather_wrapper: dev_dense[i] = dev_sparse[dev_pattern[i]], i < n.
CudaGatherKernel(dp, ds, dd, n, g) ==
  [i \in 1 .. Len(dd) |->
     IF i <= n
       THEN IF InBounds(dp[i], Len(ds)) THEN ds[dp[i] + 1] ELSE g[i]
       ELSE dd[i]]

\* The device threads' writes in the order ord in which they land.
RECURSIVE ScatterOrdered(_, _, _, _, _)
ScatterOrdered(s, d, p, ord, k) ==
  IF k > Len(ord) THEN s
  ELSE LET i == ord[k]
       IN  ScatterOrdered(
             IF InBounds(p[i], Len(s)) THEN [s EXCEPT ![p[i] + 1] = d[i]] ELSE s,
             d, p, ord, k + 1)

\* The orders in which the first n positions can be written.
WriteOrders(n) ==
  IF n <= 0 THEN {<<>>}
  ELSE {[k \in 1 .. n |-> f[k]] : f \in Permutations(1 .. n)}

\* cuda_scatter_wrapper: dev_sparse[dev_pattern[i]] = dev_dense[i], i < n,
\* by unordered device threads: every result the kernel can leave.
CudaScatterKernel(dp, ds, dd, n) ==
  {ScatterOrdered(ds, dd, dp, ord, 1) : ord \in WriteOrders(n)}

\* float time_ms = 0; cudaEventElapsedTime(&time_ms, start, stop);
\* time_seconds += time_ms / 1000: the interval between the events as last
\* recorded (0 while they never were).
CudaElapsed(old, interval) == old + interval

\* The interval between the start and stop events after this call: a timed
\* call records both, an untimed call leaves them as they were.
EventInterval(timed, prev, d) == IF timed THEN d ELSE prev

\* Configuration<CUDA>::gather (k = "gather") and ::scatter (k = "scatter").
CudaKernel(k, timed) ==
  LET n == CastInt(Len(pattern))
      oob == n > 0 /\ ~AllInBounds(dev_pattern, dev_sparse)
  IN
  \/ \* after a device fault every CUDA call fails and changes nothing
     /\ dev_fault
     /\ UNCHANGED <<dev_sparse, dev_dense, ev_elapsed, time_seconds, last_dur,
                    dev_fault, pc>>
  \/ \* the kernel touches an illegal address: a sticky device error
     /\ ~dev_fault /\ oob
     /\ dev_fault' = TRUE
     /\ UNCHANGED <<dev_sparse, dev_dense, ev_elapsed, time_seconds, last_dur, pc>>
  \/ \* the out-of-bounds accesses go unnoticed
     /\ ~dev_fault /\ oob
     /\ \E d \in Durations :
          /\ ev_elapsed' = EventInterval(timed, ev_elapsed, d)
          /\ last_dur' = IF timed THEN d ELSE last_dur
     /\ time_seconds' = CudaElapsed(time_seconds, ev_elapsed')
     /\ time_seconds' <= MaxTime
     /\ IF k = "gather"
          THEN /\ \E g \in Garbage(dev_pattern) :
                    dev_dense' = CudaGatherKernel(dev_pattern, dev_sparse,
                                                  dev_dense, n, g)
               /\ UNCHANGED dev_sparse
          ELSE /\ dev_sparse' \in CudaScatterKernel(dev_pattern, dev_sparse,
                                                    dev_dense, n)
               /\ UNCHANGED dev_dense
     /\ pc' = "undefined"
     /\ UNCHANGED dev_fault
  \/ /\ ~dev_fault /\ ~oob
     /\ \E d \in Durations :
          /\ ev_elapsed' = EventInterval(timed, ev_elapsed, d)
          /\ last_dur' = IF timed THEN d ELSE last_dur
     /\ time_seconds' = CudaElapsed(time_seconds, ev_elapsed')
     /\ time_seconds' <= MaxTime
     /\ IF k = "gather"
          THEN /\ dev_dense' = CudaGatherKernel(dev_pattern, dev_sparse,
                                                dev_dense, n, <<>>)
               /\ UNCHANGED dev_sparse
          ELSE /\ dev_sparse' \in CudaScatterKernel(dev_pattern, dev_sparse,
                                                    dev_dense, n)
               /\ UNCHANGED dev_dense
     /\ UNCHANGED <<dev_fault, pc>>

\* The value Configuration<CUDA>::run returns.
CudaRunStatus(k) == <<0>>

\* Configuration<CUDA>::run: ConfigurationBase::run (result discarded), the
\* device-to-host copies (which fail after a device fault) and the device
\* synchronisation.
RunCuda ==
  /\ pc = "ready"
  /\ backend = "CUDA"
  /\ \E timed \in BOOLEAN :
       /\ call' = NewCall("run", timed, Entered(kernel))
       /\ IF Dispatch(kernel) = "invalid"
            THEN UNCHANGED <<dev_sparse, dev_dense, ev_elapsed, time_seconds,
                             last_dur, dev_fault, pc>>
            ELSE CudaKernel(Dispatch(kernel), timed)
  /\ sparse' = IF dev_fault' THEN sparse ELSE dev_sparse'
  /\ dense' = IF dev_fault' THEN dense ELSE dev_dense'
  /\ ret' = CudaRunStatus(kernel)
  /\ UNCHANGED <<ctorVars, mpi, rand_state, dev_pattern, dev_alloc, dev_released,
                 exit_code, allocs, omp, report_out>>

\* A caller invoking gather(timed) or scatter(timed) of a
\* Configuration<CUDA> itself: the device buffers change, the host copies
\* are not refreshed.
DirectCuda ==
  /\ pc = "ready"
  /\ backend = "CUDA"
  /\ \E timed \in BOOLEAN, k \in {"gather", "scatter"} :
       /\ call' = NewCall("direct", timed, <<k>>)
       /\ CudaKernel(k, timed)
  /\ UNCHANGED <<ctorVars, mpi, rand_state, sparse, dense, dev_pattern, dev_alloc,
                 dev_released, ret, exit_code, allocs, omp, report_out>>

\* ------------------------------------------------------------- report
\* sizeof(size_t)
ElemSize == 8

\* Mutant of Bandwidth: the division by 1000000 is missing.
BandwidthNoMega(bytes, t) ==
  IF t = 0 THEN (IF bytes = 0 THEN <<"nan">> ELSE <<"inf">>)
  ELSE <<bytes, t>>

\* (double)(bytes) / time_seconds / 1000000. as the fraction bytes / (t * 10^6);
\* a division by zero gives an infinity, 0 / 0 a NaN.
Bandwidth(bytes, t) ==
  IF t = 0 THEN (IF bytes = 0 THEN <<"nan">> ELSE <<"inf">>)
  ELSE <<bytes, t * 1000000>>

\* The four figures ConfigurationBase::report prints.
ReportFigures(n, p, t) ==
  [total_bytes |-> n * Len(p) * ElemSize,
   bytes_per_run |-> Len(p) * ElemSize,
   runs |-> n,
   seconds |-> t,
   bandwidth |-> Bandwidth(n * Len(p) * ElemSize, t)]

\* Configuration<Backend>::report
Report ==
  /\ pc = "ready"
  /\ report_out' = <<ReportFigures(nruns, pattern, time_seconds)>>
  /\ UNCHANGED <<ctorVars, mpi, rand_state, hostVars, cudaVars, pc, ret, exit_code,
                 allocs, call, omp>>

\* Configuration<CUDA>::~Configuration: both events go to cudaEventDestroy
\* and the three pointers to cudaFree, whatever setup() acquired.
Teardown ==
  /\ backend = "CUDA"
  /\ pc \in {"ready", "degraded"}
  /\ dev_released' = [r \in CudaResources |-> dev_released[r] + 1]
  /\ pc' = "destroyed"
  /\ UNCHANGED <<ctorVars, mpi, rand_state, hostVars, dev_pattern, dev_sparse,
                 dev_dense, dev_alloc, ev_elapsed, dev_fault, ret, exit_code,
                 allocs, call, omp, report_out>>

\* ------------------------------------------------------------- MPI
\* Mutant of CallSteps: the clock is started before the barrier.
CallStepsClockFirst(b, timed) ==
  (IF b = "CUDA" THEN <<"device_sync">> ELSE <<>>)
  \o (IF timed THEN <<"clock">> ELSE <<>>) \o <<"barrier", "kernel">>
  \o (IF timed THEN <<"stop">> ELSE IF b = "CUDA" THEN <<"device_wait">> ELSE <<>>)

\* The steps of gather(timed) and scatter(timed) of backend b in a build
\* with USE_MPI, in program order: cudaDeviceSynchronize (CUDA only),
\* MPI_Barrier, timer.start() or cudaEventRecord(start) if timed, the kernel
\* loop or launch, and the stop of the clock or the wait for the device.
CallSteps(b, timed) ==
  (IF b = "CUDA" THEN <<"device_sync">> ELSE <<>>)
  \o <<"barrier">> \o (IF timed THEN <<"clock">> ELSE <<>>) \o <<"kernel">>
  \o (IF timed THEN <<"stop">> ELSE IF b = "CUDA" THEN <<"device_wait">> ELSE <<>>)

\* The step process p is about to take.
MpiAt(p) ==
  IF mpi.pos[p] = 0 THEN "outside"
  ELSE CallSteps(backend, mpi.timed[p])[mpi.pos[p]]

\* pos after the step at pos: 0 when the call returns.
MpiAdvance(p) ==
  IF mpi.pos[p] = Len(CallSteps(backend, mpi.timed[p])) THEN 0 ELSE mpi.pos[p] + 1

\* Process p calls gather(timed) or scatter(timed).
MpiCall(p) ==
  /\ pc = "ready"
  /\ mpi.live[p]
  /\ mpi.pos[p] = 0
  /\ mpi.calls[p] < MaxCalls
  /\ \E timed \in BOOLEAN :
       mpi' = [mpi EXCEPT !.calls[p] = @ + 1, !.pos[p] = 1, !.timed[p] = timed]
  /\ UNCHANGED <<ctorVars, rand_state, hostVars, cudaVars, pc, ret, exit_code,
                 allocs, call, omp, report_out>>

\* Process p enters MPI_Barrier(MPI_COMM_WORLD).
MpiArrive(p) ==
  /\ mpi.live[p]
  /\ MpiAt(p) = "barrier"
  /\ ~mpi.waiting[p]
  /\ mpi' = [mpi EXCEPT !.arrived[p] = @ + 1, !.waiting[p] = TRUE]
  /\ UNCHANGED <<ctorVars, rand_state, hostVars, cudaVars, pc, ret, exit_code,
                 allocs, call, omp, report_out>>

\* MPI_Barrier returns in process p: every process of the communicator has
\* entered this barrier.
MpiLeave(p) ==
  /\ mpi.live[p]
  /\ mpi.waiting[p]
  /\ \A q \in Procs : mpi.arrived[q] >= mpi.arrived[p]
  /\ mpi' = [mpi EXCEPT !.waiting[p] = FALSE, !.pos[p] = MpiAdvance(p)]
  /\ UNCHANGED <<ctorVars, rand_state, hostVars, cudaVars, pc, ret, exit_code,
                 allocs, call, omp, report_out>>

\* Process p takes its next step other than the barrier.
MpiStep(p) ==
  /\ mpi.live[p]
  /\ MpiAt(p) \notin {"outside", "barrier"}
  /\ mpi' = [mpi EXCEPT !.pos[p] = MpiAdvance(p)]
  /\ UNCHANGED <<ctorVars, rand_state, hostVars, cudaVars, pc, ret, exit_code,
                 allocs, call, omp, report_out>>

\* Process p errors out before it has reached the barrier of its next or
\* current invocation.
MpiDiverge(p) ==
  /\ mpi.live[p]
  /\ ~mpi.waiting[p]
  /\ MpiAt(p) \in {"outside", "device_sync", "barrier"}
  /\ mpi' = [mpi EXCEPT !.live[p] = FALSE]
  /\ UNCHANGED <<ctorVars, rand_state, hostVars, cudaVars, pc, ret, exit_code,
                 allocs, call, omp, report_out>>

\* A client that only uses run() and report() and then destroys the object.
Next ==
  \/ Setup
  \/ RunSerial
  \/ RunOmp
  \/ \E i \in 1 .. MaxLen : OmpLoad(i)
  \/ \E i \in 1 .. MaxLen : OmpStore(i)
  \/ OmpJoin
  \/ RunCuda
  \/ Report
  \/ Teardown

Spec == Init /\ [][Next]_vars

\* The configurations whose sparse length max(pattern) + 1 is a size_t
\* value, so that setup() sizes Sparse to hold every index of the pattern.
Representable(p) == MaxPatternVal(p, 1, 0) < SizeMax

InitSized == Init /\ Representable(pattern)

SpecSized == InitSized /\ [][Next]_vars

\* A client that calls the public gather() and scatter() itself.
NextDirect ==
  \/ Setup
  \/ DirectSerial
  \/ DirectOmp
  \/ \E i \in 1 .. MaxLen : OmpLoad(i)
  \/ \E i \in 1 .. MaxLen : OmpStore(i)
  \/ OmpJoin
  \/ DirectCuda

SpecDirect == InitSized /\ [][NextDirect]_vars

\* The processes of an MPI job, each calling gather/scatter of its own
\* object of the same backend, followed from the end of setup().
InitMpi ==
  /\ Init
  /\ kernelArg = GatherName
  /\ pattern = <<0>>
  /\ rand_state = 0

NextMpi ==
  \/ Setup
  \/ \E p \in Procs : MpiCall(p)
  \/ \E p \in Procs : MpiArrive(p)
  \/ \E p \in Procs : MpiLeave(p)
  \/ \E p \in Procs : MpiStep(p)
  \/ \E p \in Procs : MpiDiverge(p)

SpecMpi == InitMpi /\ [][NextMpi]_vars

\* ------------------------------------------------------------- claims
\* The positions of p that name sparse slot s (0-based).
Writers(p, s) == {j \in 1 .. Len(p) : p[j] = s}

NoDuplicates(p) == \A i, j \in 1 .. Len(p) : p[i] = p[j] => i = j

\* A kernel call has been entered and is no longer in progress.
CallOver(k) == call.ran = <<k>> /\ pc # "running"

\* The last call returned normally (the object may have been destroyed since).
Returned == pc \in {"ready", "destroyed"}

\* C1: after a gather call, in every backend, Dense[i] equals the value
\* Sparse[Pattern[i]] had before the call, for every position i of the
\* pattern (and the call does return).
C1_GatherReadsSparseAtPattern ==
  CallOver("gather") =>
    /\ Returned
    /\ Len(dense) = Len(pattern)
    /\ KernelDense = dense
    /\ \A i \in 1 .. Len(pattern) :
         /\ InBounds(pattern[i], Len(call.pre_sparse))
         /\ dense[i] = call.pre_sparse[pattern[i] + 1]

\* C1 witness: a gather over a two-element pattern that reverses two
\* different sparse values has returned and changed Dense.
C1_Witness ==
  /\ CallOver("gather")
  /\ pc = "ready"
  /\ pattern = <<1, 0>>
  /\ dense # call.pre_dense
  /\ dense[1] # dense[2]

\* C2: for a pattern without duplicate indices, in every backend, a gather
\* followed by a scatter (Dense untouched in between) leaves every Sparse
\* slot named by the pattern with its value from before the gather, and
\* every other Sparse slot unchanged.
C2_GatherScatterRoundTrip ==
  (CallOver("scatter") /\ call.prev_ran = <<"gather">> /\ NoDuplicates(pattern)) =>
    /\ Returned
    /\ Len(KernelSparse) = Len(call.prev_pre_sparse)
    /\ \A s \in 0 .. (Len(KernelSparse) - 1) :
         KernelSparse[s + 1] = call.prev_pre_sparse[s + 1]
    /\ \A i \in 1 .. Len(pattern) : InBounds(pattern[i], Len(KernelSparse))

\* C2 witness: the round trip has been made over the pattern <<1, 0>> after
\* an earlier scatter had changed Sparse, on the OpenMP backend.
C2_Witness ==
  /\ CallOver("scatter")
  /\ call.prev_ran = <<"gather">>
  /\ pc = "ready"
  /\ backend = "OpenMP"
  /\ pattern = <<1, 0>>
  /\ sparse[1] # sparse[2]

\* setup() has returned: the object is constructed and in use.
SetUp == pc \in {"ready", "running", "crashed", "undefined", "degraded",
                "destroyed"}

\* The kernel name given to the constructor, compared without regard to
\* case, is the name k.
NamedKernel(k) ==
  /\ Len(kernelArg) = Len(k)
  /\ \A i \in 1 .. Len(k) : ToLowerChar(kernelArg[i]) = k[i]

UnknownKernel == ~NamedKernel(GatherName) /\ ~NamedKernel(ScatterName)

\* C3: after setup() on a non-empty pattern, and in every state reached by
\* run() and report() calls afterwards, len(Sparse) = max(Pattern) + 1 and
\* len(Dense) = len(Pattern).
C3_BufferSizes ==
  (SetUp /\ Len(pattern) > 0) =>
    /\ Len(sparse) = MaxPatternVal(pattern, 1, 0) + 1
    /\ Len(dense) = Len(pattern)

\* C4: a run() with a kernel name that is neither "gather" nor "scatter"
\* returns a non-zero status, enters no kernel and leaves Dense, Sparse and
\* the elapsed time as they were, in every backend.
C4_UnknownKernelRejected ==
  (UnknownKernel /\ call.op = "run") =>
    /\ ret # <<>>
    /\ ret # <<0>>
    /\ call.ran = <<>>
    /\ sparse = call.pre_sparse
    /\ dense = call.pre_dense
    /\ time_seconds = call.pre_time

\* C5: with a kernel name that is "gather" or "scatter" in any letter case,
\* every run() on a non-empty pattern returns 0 having entered exactly that
\* kernel once and left the other kernel's target buffer alone; while a
\* parallel loop is in progress some step of it can be taken, so the call
\* ends.
C5_ValidKernelRuns ==
  /\ \A k \in {"gather", "scatter"} :
       (call.op = "run" /\ pc # "running"
          /\ NamedKernel(IF k = "gather" THEN GatherName ELSE ScatterName)) =>
         /\ Returned
         /\ ret = <<0>>
         /\ call.ran = <<k>>
         /\ k = "gather" => KernelSparse = call.pre_sparse
         /\ k = "scatter" => KernelDense = call.pre_dense
  /\ pc = "running" =>
       \/ \E i \in 1 .. Len(pattern) : ENABLED OmpLoad(i) \/ ENABLED OmpStore(i)
       \/ ENABLED OmpJoin

\* C5 witness: a run() of a configuration constructed with "GATHER" has
\* returned 0 after entering gather.
C5_Witness ==
  /\ kernelArg = <<"G", "A", "T", "H", "E", "R">>
  /\ call.op = "run"
  /\ pc = "ready"
  /\ ret = <<0>>
  /\ call.ran = <<"gather">>

\* C6: a configuration with an unknown kernel name never has Dense or Sparse
\* allocated, from construction up to and including the report of the error.
C6_UnknownKernelAllocatesNothing ==
  UnknownKernel =>
    /\ allocs = 0
    /\ Len(dense) = 0
    /\ Len(sparse) = 0

\* C7: setup() on an empty pattern exits with status 1 before anything is
\* allocated: no Dense, no Sparse, no device buffer, no event, and no kernel
\* is ever entered.
C7_EmptyPatternRejected ==
  (Len(pattern) = 0 /\ pc # "constructed") =>
    /\ pc = "exited"
    /\ exit_code = <<1>>
    /\ allocs = 0
    /\ dense = <<>>
    /\ sparse = <<>>
    /\ dev_alloc = {}
    /\ call = NoCall

\* C7 witness: the device variant has exited from setup() on an empty
\* pattern.
C7_Witness ==
  /\ Len(pattern) = 0
  /\ backend = "CUDA"
  /\ pc = "exited"
  /\ exit_code = <<1>>

\* The last position of p that names sparse slot s.
LastWriter(p, s) == CHOOSE j \in Writers(p, s) : \A k \in Writers(p, s) : k <= j

\* C8: after a Serial scatter, for any pattern, every Sparse slot named by
\* the pattern holds Dense[j] for the largest position j naming it, and every
\* other slot keeps its value.
C8_SerialScatterLastWriterWins ==
  (backend = "Serial" /\ CallOver("scatter")) =>
    /\ pc = "ready"
    /\ Len(sparse) = Len(call.pre_sparse)
    /\ \A i \in 1 .. Len(pattern) : InBounds(pattern[i], Len(sparse))
    /\ \A s \in 0 .. (Len(sparse) - 1) :
         sparse[s + 1] = IF Writers(pattern, s) = {}
                           THEN call.pre_sparse[s + 1]
                           ELSE call.pre_dense[LastWriter(pattern, s)]

\* C8 witness: a Serial scatter over the all-equal pattern <<1, 1>> with two
\* different Dense values has left the second one in slot 1 and slot 0 alone.
C8_Witness ==
  /\ backend = "Serial"
  /\ CallOver("scatter")
  /\ pc = "ready"
  /\ pattern = <<1, 1>>
  /\ call.pre_dense[1] # call.pre_dense[2]
  /\ sparse[2] = call.pre_dense[2]
  /\ sparse[2] # call.pre_sparse[2]

\* Two accesses by different iterations to one location, one of them a write.
Conflict(a, b) ==
  /\ a.it # b.it
  /\ a.buf = b.buf
  /\ a.idx = b.idx
  /\ (a.kind = "w" \/ b.kind = "w")

\* C9: in the OpenMP gather, under every interleaving, no location is
\* written by two iterations or written by one and read by another, and the
\* Dense it leaves is the Dense the Serial gather loop computes from the same
\* buffers.
C9_ParallelGatherRaceFree ==
  (backend = "OpenMP" /\ omp.kernel = "gather") =>
    /\ \A a, b \in omp.acc : ~Conflict(a, b)
    /\ pc # "running" =>
         /\ pc = "ready"
         /\ dense = GatherLoop(call.pre_dense, call.pre_sparse, pattern, <<>>, 1)

\* C9 witness: an OpenMP gather over the duplicate pattern <<1, 1>> has
\* finished, both iterations having read slot 1 and written their own Dense
\* slot.
C9_Witness ==
  /\ backend = "OpenMP"
  /\ omp.kernel = "gather"
  /\ pc = "ready"
  /\ pattern = <<1, 1>>
  /\ dense # call.pre_dense
  /\ Cardinality(omp.acc) = 4

\* C10: after an OpenMP scatter, under every interleaving, every Sparse slot
\* named by the pattern holds Dense[i] for some position i naming it, every
\* other slot is unchanged, the only conflicting accesses are pairs of writes
\* to a Sparse slot the pattern names more than once, and without duplicates
\* the result is that of the Serial scatter loop.
C10_ParallelScatterUnordered ==
  (backend = "OpenMP" /\ omp.kernel = "scatter") =>
    /\ \A a, b \in omp.acc :
         Conflict(a, b) =>
           /\ a.kind = "w" /\ b.kind = "w"
           /\ a.buf = "sparse"
           /\ Cardinality(Writers(pattern, a.idx)) > 1
    /\ pc # "running" =>
         /\ pc = "ready"
         /\ Len(sparse) = Len(call.pre_sparse)
         /\ \A i \in 1 .. Len(pattern) : InBounds(pattern[i], Len(sparse))
         /\ \A s \in 0 .. (Len(sparse) - 1) :
              IF Writers(pattern, s) = {}
                THEN sparse[s + 1] = call.pre_sparse[s + 1]
                ELSE \E i \in Writers(pattern, s) : sparse[s + 1] = call.pre_dense[i]
         /\ NoDuplicates(pattern) =>
              sparse = ScatterLoop(call.pre_sparse, call.pre_dense, pattern, 1)

\* C10 witness: an OpenMP scatter over <<1, 1>> has ended with the first
\* position's value in slot 1, which the Serial loop never leaves there.
C10_Witness ==
  /\ backend = "OpenMP"
  /\ omp.kernel = "scatter"
  /\ pc = "ready"
  /\ pattern = <<1, 1>>
  /\ call.pre_dense[1] # call.pre_dense[2]
  /\ sparse[2] = call.pre_dense[1]
  /\ \E a, b \in omp.acc : Conflict(a, b)

\* C12: in every backend each timed run() adds the duration it measured to
\* the elapsed time recorded before it and an untimed run() adds nothing, so
\* that time_seconds is the sum of the durations of all timed calls so far.
C12_ElapsedTimeAccumulates ==
  (call.op = "run" /\ pc = "ready" /\ ~dev_fault) =>
    time_seconds = call.pre_time
                     + (IF call.timed /\ call.ran # <<>> THEN last_dur ELSE 0)

\* C13: a report() made while the elapsed time is 0 prints the "undefined
\* bandwidth" sentinel: the bandwidth field is neither a quotient nor an
\* infinity nor a NaN.
C13_ZeroTimeGuarded ==
  (report_out # <<>> /\ report_out[1].seconds = 0) =>
    /\ Len(report_out[1].bandwidth) = 1
    /\ report_out[1].bandwidth \notin {<<"inf">>, <<"nan">>}

\* C14: report() prints N*P*8 total bytes, P*8 bytes per run and, for T > 0,
\* the bandwidth (N*P*8) / T / 1000000, with N, P and T the object's nruns,
\* pattern length and elapsed time at the call, and it changes nothing but
\* its output.
C14_ReportArithmetic ==
  /\ [](report_out # <<>> =>
          LET r == report_out[1]
              N == nruns
              P == Len(pattern)
          IN  /\ r.runs = N
              /\ r.total_bytes = N * P * 8
              /\ r.bytes_per_run = P * 8
              /\ r.seconds > 0 =>
                   r.bandwidth = <<N * P * 8, r.seconds * 1000000>>)
  /\ [][report_out' # report_out =>
          /\ report_out'[1].seconds = time_seconds
          /\ UNCHANGED <<ctorVars, mpi, rand_state, hostVars, cudaVars, pc, ret,
                         exit_code, allocs, call, omp>>]_vars

\* C14 witness: a report with N = 10, P = 2 and T = 1 has printed 160 total
\* bytes, 16 bytes per run and the bandwidth 160 / 1000000.
C14_Witness ==
  /\ report_out # <<>>
  /\ Len(pattern) = 2
  /\ report_out[1].seconds = 1
  /\ report_out[1].total_bytes = 160
  /\ report_out[1].bytes_per_run = 16
  /\ report_out[1].bandwidth = <<160, 1000000>>

\* C17: an untimed run() leaves time_seconds as it was before the call, in
\* every backend and after any earlier runs.
C17_UntimedRunKeepsElapsedTime ==
  (call.op = "run" /\ ~call.timed) => time_seconds = call.pre_time

\* C18: in the Serial and OpenMP variants a gather leaves Sparse, and a
\* scatter leaves Dense, exactly as before the call, at every step of the
\* call; the pattern, the kernel name and nruns never change; a gather
\* directly after a gather leaves Dense unchanged, and a Serial scatter
\* directly after a scatter leaves Sparse unchanged.
C18_KernelFrameConditions ==
  /\ [](backend \in {"Serial", "OpenMP"} =>
          /\ call.ran = <<"gather">> =>
               /\ sparse = call.pre_sparse
               /\ Len(dense) = Len(call.pre_dense)
               /\ (call.prev_ran = <<"gather">> /\ pc = "ready") =>
                    dense = call.pre_dense
          /\ call.ran = <<"scatter">> =>
               /\ dense = call.pre_dense
               /\ Len(sparse) = Len(call.pre_sparse)
               /\ (backend = "Serial" /\ call.prev_ran = <<"scatter">>) =>
                    sparse = call.pre_sparse)
  /\ [][kernel' = kernel /\ pattern' = pattern /\ nruns' = nruns]_vars

\* C18 witness: an OpenMP gather directly after a gather has returned, the
\* first of the two having changed Dense.
C18_Witness ==
  /\ backend = "OpenMP"
  /\ call.ran = <<"gather">>
  /\ call.prev_ran = <<"gather">>
  /\ pc = "ready"
  /\ pattern = <<1, 0>>
  /\ dense[1] # dense[2]

\* C19: after setup() on any non-empty pattern every index the kernels use
\* is inside its buffer (i < len(Dense), Pattern[i] < len(Sparse)), so no
\* gather or scatter ever makes an out-of-bounds access.
C19_AccessesInBounds ==
  (SetUp /\ Len(pattern) > 0) =>
    /\ Len(dense) = Len(pattern)
    /\ AllInBounds(pattern, sparse)
    /\ pc \notin {"crashed", "undefined"}
    /\ ~omp.ub
    /\ ~dev_fault

\* C15: a run() on the device variant copies neither Sparse nor Dense back
\* to the host (the host copies stay as they were) and never synchronises
\* with the whole device, and an untimed run() has no synchronisation point
\* with the device at all.
C15_DeviceRunAsynchronous ==
  (backend = "CUDA" /\ call.op = "run") =>
    /\ "memcpy_d2h_sparse" \notin call.dev_ops
    /\ "memcpy_d2h_dense" \notin call.dev_ops
    /\ "device_sync" \notin call.dev_ops
    /\ ~call.timed => call.dev_ops = {}
    /\ sparse = call.host_sparse
    /\ dense = call.host_dense

\* C16: on the device variant every event and device buffer is handed to its
\* release call at most once and only if setup() acquired it, and once the
\* context has gone (destroyed, or exited from setup) everything setup()
\* acquired has been released, also when setup() acquired only a part.
C16_DeviceResourcesReleasedOnce ==
  backend = "CUDA" =>
    \A r \in CudaResources :
      /\ dev_released[r] <= (IF r \in dev_alloc THEN 1 ELSE 0)
      /\ (pc \in {"destroyed", "exited"} /\ r \in dev_alloc) => dev_released[r] = 1

\* Process p has started the clock or made the first memory access of its
\* latest invocation (or has completed that invocation).
MpiStarted(p) ==
  \/ mpi.pos[p] = 0 /\ mpi.calls[p] > 0
  \/ \E j \in 1 .. (mpi.pos[p] - 1) :
       CallSteps(backend, mpi.timed[p])[j] \in {"clock", "kernel"}

\* C11: with MPI enabled, in every backend and for timed and untimed calls,
\* a process that has started the clock or the kernel of its k-th
\* gather/scatter invocation finds every process inside or past the k-th
\* barrier; so while some process has not reached that barrier (it may have
\* errored out for good) no process has started the k-th kernel.
C11_BarrierBeforeKernel ==
  \A p \in Procs :
    /\ MpiStarted(p) => \A q \in Procs : mpi.arrived[q] >= mpi.calls[p]
    /\ \A q \in Procs :
         (~mpi.live[q] /\ mpi.arrived[q] < mpi.calls[p]) => ~MpiStarted(p)

\* C11 witness: process 1 has started the clock and the kernel of its second,
\* timed invocation after process 2 entered the second barrier, and process 2
\* is still inside that barrier.
C11_Witness ==
  /\ mpi.calls[1] = 2
  /\ mpi.timed[1]
  /\ MpiAt(1) = "stop"
  /\ mpi.arrived[2] = 2
  /\ mpi.waiting[2]

====
